---------------------------- MODULE Spec2Model ----------------------------
(***************************************************************************)
(* Model of PyStorage-Eval (src/storage_eval.py): class StorageProject --   *)
(* parameter validation, the year-by-year cash-flow engine                  *)
(* (calculate_cash_flow) and the metric extraction (get_metrics).           *)
(*                                                                          *)
(* Numbers.  The program computes on Python floats.  Every amount is        *)
(* modelled as an exact rational <<n, d>> (d > 0, lowest terms), so "/" is  *)
(* true division and equalities are mathematical equalities; floating       *)
(* rounding error (a relative error of about 1e-16 per operation) is not    *)
(* modelled.  int() is truncation toward zero, round(x, 2) is rounding to   *)
(* two decimals.  NaN and infinities are not modelled.                      *)
(***************************************************************************)
EXTENDS Integers, Sequences, FiniteSets, TLC

-----------------------------------------------------------------------------
(* Rational arithmetic (Python float arithmetic, idealised)                 *)

Abs(x) == IF x < 0 THEN -x ELSE x

RECURSIVE GCD(_, _)
GCD(a, b) == IF b = 0 THEN a ELSE GCD(b, a % b)

Norm(n, d) ==
    LET s == IF d < 0 THEN -1 ELSE 1
        g == GCD(Abs(n), Abs(d))
    IN  << (s * n) \div g, (s * d) \div g >>

Q(n, d) == Norm(n, d)
I(n) == << n, 1 >>
Zero == I(0)
One == I(1)

RNeg(a) == << -a[1], a[2] >>
RAdd(a, b) ==
    LET g == GCD(a[2], b[2])
    IN  Norm(a[1] * (b[2] \div g) + b[1] * (a[2] \div g), (a[2] \div g) * b[2])
RSub(a, b) == RAdd(a, RNeg(b))
RMul(a, b) ==
    LET g1 == GCD(Abs(a[1]), b[2])
        g2 == GCD(Abs(b[1]), a[2])
    IN  IF a[1] = 0 \/ b[1] = 0 THEN Zero
        ELSE << (a[1] \div g1) * (b[1] \div g2), (a[2] \div g2) * (b[2] \div g1) >>
RInv(a) == IF a[1] > 0 THEN << a[2], a[1] >> ELSE << -a[2], -a[1] >>
\* a / b for b # 0 (the callers raise ZeroDivisionError themselves when b = 0)
RDiv(a, b) == RMul(a, RInv(b))
RAbs(a) == << Abs(a[1]), a[2] >>

RLt(a, b) == RSub(a, b)[1] < 0
RLe(a, b) == RSub(a, b)[1] <= 0
RGt(a, b) == RLt(b, a)
RGe(a, b) == RLe(b, a)
RMax(a, b) == IF RGe(a, b) THEN a ELSE b

\* int(x): truncation toward zero
PyInt(a) == IF a[1] >= 0 THEN a[1] \div a[2] ELSE -((-a[1]) \div a[2])

\* a % b on Python ints, b # 0: the result has the sign of b
PyMod(a, b) == IF b > 0 THEN a % b ELSE -((-a) % (-b))

\* round(x, 2): nearest multiple of 1/100, ties to the even one
\* (long division, digit by digit, so that no product leaves the int range)
PyRound2(a) ==
    LET w == a[1] \div a[2]
        r == a[1] % a[2]
        t1 == (10 * r) \div a[2]
        r1 == (10 * r) % a[2]
        t2 == (10 * r1) \div a[2]
        r2 == (10 * r1) % a[2]
        h == 100 * w + 10 * t1 + t2        \* floor(100 x)
        up == 2 * r2 > a[2] \/ (2 * r2 = a[2] /\ h % 2 # 0)
    IN  Q(IF up THEN h + 1 ELSE h, 100)

-----------------------------------------------------------------------------
(* class StorageConstants                                                   *)

MODE_ARBITRAGE == "arbitrage"
MODE_CAPACITY == "capacity"
MODE_ANCILLARY == "ancillary"
MODE_HYBRID == "hybrid"

VAT_ELECTRICITY == Q(13, 100)
VAT_CAPACITY == Q(6, 100)
SURTAX_RATE == Q(10, 100)
INCOME_TAX_RATE == Q(25, 100)

DEPRECIATION_YEARS_NON_BATTERY == 15
RESIDUAL_RATIO == Q(5, 100)
DEPRECIATION_BASE_RATIO == Q(95, 100)
BATTERY_ASSET_RATIO == Q(60, 100)

OPERATION_PERIOD == 20

OM_FEE_PER_KW == I(30)
OM_FEE_PER_KWH == Q(5, 100)

BATTERY_LIFE_PEAKING == 10
BATTERY_LIFE_FREQUENCY == 4

REPLACEMENT_EXPENSE == "expense"
REPLACEMENT_CAPITALIZE == "capitalize"

\* the exception classes
InputValidationError == "InputValidationError"
CalculationError == "CalculationError"

\* the columns of the cash-flow table (cols in calculate_cash_flow)
cols == { "Charge_Cost", "Discharge_Revenue", "Lease_Revenue", "Ancillary_Revenue",
          "Revenue_Inc", "Revenue_Exc", "Output_VAT", "OM_Cost", "VAT_Payable",
          "Surtax", "Battery_Replacement", "Depreciation", "Profit_Total",
          "Income_Tax", "Net_CF_Pre", "Net_CF_After" }

\* years = np.arange(1, OPERATION_PERIOD + 2)
years == 1 .. (OPERATION_PERIOD + 1)

-----------------------------------------------------------------------------
(* Parameter dictionaries: functions from a subset of the keys to values   *)

\* dict.get(key, default)
Get(d, k, default) == IF k \in DOMAIN d THEN d[k] ELSE default

\* None (self.df before the first successful build; nothing returned)
None == << >>

\* Revenue-mode parts of the inputs (with capacity, efficiency and prices)
ModeInputs ==
    { ("capacity_mwh" :> I(20)) @@ ("cycles_per_year" :> I(226)),
      ("revenue_mode" :> MODE_ARBITRAGE) @@ ("capacity_mwh" :> Q(113, 5))
          @@ ("efficiency" :> One) @@ ("discharge_price" :> One)
          @@ ("charge_price" :> Q(1, 4)),
      ("revenue_mode" :> MODE_ARBITRAGE) @@ ("capacity_mwh" :> I(20))
          @@ ("cycles_per_year" :> I(226)) @@ ("efficiency" :> One)
          @@ ("discharge_price" :> I(-1)) @@ ("charge_price" :> Q(1, 4)),
      ("revenue_mode" :> MODE_CAPACITY) @@ ("capacity_mwh" :> I(20))
          @@ ("lease_capacity" :> I(53)) @@ ("lease_price" :> I(100)),
      ("revenue_mode" :> MODE_ANCILLARY) @@ ("capacity_mwh" :> I(20))
          @@ ("ancillary_type" :> "peaking") @@ ("ancillary_revenue" :> I(4520)),
      ("revenue_mode" :> MODE_ANCILLARY) @@ ("capacity_mwh" :> I(20))
          @@ ("ancillary_type" :> "frequency") @@ ("ancillary_revenue" :> I(4520)),
      ("revenue_mode" :> MODE_HYBRID) @@ ("capacity_mwh" :> I(20))
          @@ ("cycles_per_year" :> I(226)) @@ ("efficiency" :> One)
          @@ ("discharge_price" :> One) @@ ("charge_price" :> Q(1, 4))
          @@ ("ancillary_revenue" :> I(1130)),
      ("revenue_mode" :> "spot") @@ ("capacity_mwh" :> I(20)) }

\* Financing parts: capital ratio, loan rate, caller-supplied deductible tax
FinanceInputs ==
    { ("loan_rate" :> Q(1, 20)) @@ ("deductible_tax" :> I(526)),
      ("capital_ratio" :> One),
      ("capital_ratio" :> One) @@ ("deductible_tax" :> I(-100)),
      ("capital_ratio" :> One) @@ ("deductible_tax" :> Zero),
      ("capital_ratio" :> One) @@ ("deductible_tax" :> I(30000)) }

BatteryInputs ==
    { None } \cup
    { ("battery_life" :> b) : b \in { I(4), I(25), Zero, I(-5), Q(5, 2) } }

ShareInputs == { None, ("battery_asset_ratio" :> One) }

ReplacementInputs ==
    { None,
      ("replacement_mode" :> REPLACEMENT_CAPITALIZE) @@ ("replacement_cost" :> I(3000)) }

\* Inputs that exercise the cash-flow engine: every mode with every financing
\* and battery life, and every mode with every asset share and replacement
\* treatment
EngineInputs ==
    { ("power_mw" :> I(10)) @@ ("static_invest" :> I(11300)) @@ m @@ f @@ b :
        m \in ModeInputs, f \in FinanceInputs, b \in BatteryInputs }
    \cup
    { ("power_mw" :> I(10)) @@ ("static_invest" :> I(11300)) @@ m
          @@ ("loan_rate" :> Q(1, 20)) @@ ("deductible_tax" :> I(526)) @@ b @@ s @@ r :
        m \in ModeInputs, b \in { None, ("battery_life" :> I(4)) },
        s \in ShareInputs, r \in ReplacementInputs }

\* Inputs that exercise the validation: absent and out-of-range fields
Opt(k, vs) == { None } \cup { (k :> v) : v \in vs }
ValidationInputs ==
    { ("cycles_per_year" :> I(226)) @@ a @@ b @@ c @@ d @@ e @@ f @@ g :
        a \in Opt("power_mw", { Zero, I(10) }),
        b \in Opt("capacity_mwh", { I(-20), I(20) }),
        c \in Opt("static_invest", { Zero, I(11300) }),
        d \in Opt("efficiency", { Q(3, 2) }),
        e \in { ("capital_ratio" :> Zero), ("capital_ratio" :> One) },
        f \in Opt("battery_asset_ratio", { Zero }),
        g \in { None,
                ("revenue_mode" :> MODE_CAPACITY),
                ("revenue_mode" :> MODE_CAPACITY) @@ ("lease_capacity" :> I(53)),
                ("revenue_mode" :> MODE_ANCILLARY) @@ ("ancillary_revenue" :> I(4520)) } }

Inputs == EngineInputs \cup ValidationInputs

-----------------------------------------------------------------------------
(* StorageProject._validate_and_init_params                                 *)

\* raise InputValidationError(message); named = the fields the message names
RaiseValidation(named) == [exc |-> InputValidationError, named |-> named, attrs |-> None]

\* the mode-specific branch (if / elif chain on self.revenue_mode)
ModeParams(p, revenue_mode) ==
    IF revenue_mode = MODE_ARBITRAGE
    THEN [exc |-> "none", named |-> {}, attrs |->
            ("cycles_per_year" :> PyInt(Get(p, "cycles_per_year", I(330))))
            @@ ("charge_price" :> Get(p, "charge_price", Q(3, 10)))
            @@ ("discharge_price" :> Get(p, "discharge_price", Q(9, 10)))]
    ELSE IF revenue_mode = MODE_CAPACITY
    THEN IF "lease_capacity" \notin DOMAIN p \/ "lease_price" \notin DOMAIN p
         THEN RaiseValidation({"lease_capacity", "lease_price"})
         ELSE [exc |-> "none", named |-> {}, attrs |->
                ("lease_capacity" :> p["lease_capacity"])
                @@ ("lease_price" :> p["lease_price"])]
    ELSE IF revenue_mode = MODE_ANCILLARY
    THEN IF "ancillary_type" \notin DOMAIN p \/ "ancillary_revenue" \notin DOMAIN p
         THEN RaiseValidation({"ancillary_type", "ancillary_revenue"})
         ELSE [exc |-> "none", named |-> {}, attrs |->
                ("ancillary_type" :> p["ancillary_type"])
                @@ ("ancillary_revenue" :> p["ancillary_revenue"])
                @@ ("battery_life" :>
                      IF p["ancillary_type"] = "frequency"
                      THEN BATTERY_LIFE_FREQUENCY ELSE BATTERY_LIFE_PEAKING)]
    ELSE IF revenue_mode = MODE_HYBRID
    THEN [exc |-> "none", named |-> {}, attrs |->
            ("cycles_per_year" :> PyInt(Get(p, "cycles_per_year", I(330))))
            @@ ("charge_price" :> Get(p, "charge_price", Q(3, 10)))
            @@ ("discharge_price" :> Get(p, "discharge_price", Q(9, 10)))
            @@ ("ancillary_revenue" :> Get(p, "ancillary_revenue", Zero))
            @@ ("battery_life" :> PyInt(Get(p, "battery_life", I(BATTERY_LIFE_PEAKING))))]
    ELSE [exc |-> "none", named |-> {}, attrs |-> None]

\* mutant: in ancillary mode the type decides, whatever the caller supplied
BatteryLife_mut(p, revenue_mode) ==
    IF revenue_mode = MODE_ANCILLARY
    THEN IF Get(p, "ancillary_type", "peaking") = "frequency"
         THEN BATTERY_LIFE_FREQUENCY ELSE BATTERY_LIFE_PEAKING
    ELSE PyInt(Get(p, "battery_life", I(BATTERY_LIFE_PEAKING)))

\* the battery replacement strategy: the final value of self.battery_life
BatteryLife(p, revenue_mode) ==
    LET default == PyInt(Get(p, "battery_life", I(BATTERY_LIFE_PEAKING)))
    IN  IF "battery_life" \in DOMAIN p THEN PyInt(p["battery_life"])
        ELSE IF revenue_mode = MODE_ANCILLARY
        THEN IF Get(p, "ancillary_type", "peaking") = "frequency"
             THEN BATTERY_LIFE_FREQUENCY ELSE BATTERY_LIFE_PEAKING
        ELSE IF revenue_mode = MODE_HYBRID
        THEN PyInt(Get(p, "battery_life", I(BATTERY_LIFE_PEAKING)))
        ELSE default

\* self.replacement_mode, self.replacement_cost
ReplacementParams(p, static_invest) ==
    ("replacement_mode" :> Get(p, "replacement_mode", REPLACEMENT_EXPENSE))
    @@ ("replacement_cost" :>
          IF "replacement_cost" \in DOMAIN p THEN p["replacement_cost"]
          ELSE RMul(static_invest, Q(7, 10)))

\* the range checks, in the order of the code: the first failing one raises
RangeCheck(power_mw, capacity_mwh, efficiency, static_invest, capital_ratio) ==
    IF RLe(power_mw, Zero) THEN {"power_mw"}
    ELSE IF RLe(capacity_mwh, Zero) THEN {"capacity_mwh"}
    ELSE IF ~(RLt(Zero, efficiency) /\ RLe(efficiency, One)) THEN {"efficiency"}
    ELSE IF RLe(static_invest, Zero) THEN {"static_invest"}
    ELSE IF ~(RLt(Zero, capital_ratio) /\ RLe(capital_ratio, One)) THEN {"capital_ratio"}
    ELSE {}

validate_and_init_params(p) ==
    LET required_keys == {"power_mw", "capacity_mwh", "static_invest"}
        missing_keys == {k \in required_keys : k \notin DOMAIN p}
    IN  IF missing_keys # {} THEN RaiseValidation(missing_keys)
        ELSE
        LET power_mw == Get(p, "power_mw", Zero)
            capacity_mwh == Get(p, "capacity_mwh", Zero)
            efficiency == Get(p, "efficiency", Q(85, 100))
            static_invest == Get(p, "static_invest", Zero)
            loan_rate == Get(p, "loan_rate", Q(49, 1000))
            capital_ratio == Get(p, "capital_ratio", Q(2, 10))
            bad == RangeCheck(power_mw, capacity_mwh, efficiency, static_invest, capital_ratio)
        IN  IF bad # {} THEN RaiseValidation(bad)
            ELSE
            LET loan_principal == RMul(static_invest, RSub(One, capital_ratio))
                battery_asset_ratio == Get(p, "battery_asset_ratio", BATTERY_ASSET_RATIO)
            IN  IF ~(RLt(Zero, battery_asset_ratio) /\ RLe(battery_asset_ratio, One))
                THEN RaiseValidation({"battery_asset_ratio"})
                ELSE
                LET revenue_mode == Get(p, "revenue_mode", MODE_ARBITRAGE)
                    mode == ModeParams(p, revenue_mode)
                IN  IF mode.exc # "none" THEN mode
                    ELSE [exc |-> "none", named |-> {}, attrs |->
                            \* later assignments win: the leftmost binding of @@
                            ("battery_life" :> BatteryLife(p, revenue_mode))
                            @@ ReplacementParams(p, static_invest)
                            @@ mode.attrs
                            @@ ("power_mw" :> power_mw)
                            @@ ("capacity_mwh" :> capacity_mwh)
                            @@ ("efficiency" :> efficiency)
                            @@ ("static_invest" :> static_invest)
                            @@ ("loan_rate" :> loan_rate)
                            @@ ("capital_ratio" :> capital_ratio)
                            @@ ("loan_principal" :> loan_principal)
                            @@ ("battery_asset_ratio" :> battery_asset_ratio)
                            @@ ("revenue_mode" :> revenue_mode)]

-----------------------------------------------------------------------------
(* The cash-flow engine: the pieces of calculate_cash_flow                  *)

\* hasattr(self, name)
hasattr(self, name) == name \in DOMAIN self

calc_construction_interest(self) ==
    RMul(RDiv(self["loan_principal"], I(2)), self["loan_rate"])

get_om_rate(self, year_idx) ==
    LET om_by_power ==
            RDiv(RMul(RMul(self["power_mw"], I(1000)), OM_FEE_PER_KW), I(10000))
        annual_discharge ==
            IF hasattr(self, "cycles_per_year")
            THEN RMul(self["capacity_mwh"], I(self["cycles_per_year"]))
            ELSE RMul(self["capacity_mwh"], I(330))
        om_by_energy ==
            RDiv(RMul(RMul(annual_discharge, I(1000)), OM_FEE_PER_KWH), I(10000))
    IN  RMax(om_by_power, om_by_energy)

\* deductible_tax = self.p.get('deductible_tax', static_invest / 1.13 * 0.13)
InitialDeductible(p, self) ==
    Get(p, "deductible_tax",
        RMul(RDiv(self["static_invest"], RAdd(One, VAT_ELECTRICITY)), VAT_ELECTRICITY))

\* one row of the freshly initialised table: every column 0.0
ZeroRow == [c \in cols |-> Zero]

\* df after "B. initialise the table": zeros, and the construction-year outflow
InitialTable(self, working_capital) ==
    [y \in years |->
        IF y = 1
        THEN [ZeroRow EXCEPT
                !["Net_CF_Pre"] = RNeg(RAdd(self["static_invest"], working_capital)),
                !["Net_CF_After"] = RNeg(RAdd(self["static_invest"], working_capital))]
        ELSE ZeroRow]

\* the locals of calculate_cash_flow when the year loop is entered (sections
\* A and B, the pool and the two depreciation amounts; battery_life # 0)
BeginLocals(p, self) ==
    LET ci == calc_construction_interest(self)
        working_capital == RMul(self["static_invest"], Q(1, 100))
        ti == RAdd(RAdd(self["static_invest"], ci), working_capital)
        deductible_tax == InitialDeductible(p, self)
        fixed_asset_value == RSub(RAdd(self["static_invest"], ci), deductible_tax)
        battery_asset_value == RMul(fixed_asset_value, self["battery_asset_ratio"])
        non_battery_asset_value ==
            RMul(fixed_asset_value, RSub(One, self["battery_asset_ratio"]))
    IN  [y |-> 2,
         df |-> InitialTable(self, working_capital),
         const_interest |-> ci,
         working_capital |-> working_capital,
         total_invest |-> ti,
         deductible_tax |-> deductible_tax,
         current_deductible |-> deductible_tax,
         battery_asset_value |-> battery_asset_value,
         battery_depreciation_per_year |->
             RDiv(RMul(battery_asset_value, DEPRECIATION_BASE_RATIO),
                  I(self["battery_life"])),
         non_battery_depreciation_per_year |->
             RDiv(RMul(non_battery_asset_value, DEPRECIATION_BASE_RATIO),
                  I(DEPRECIATION_YEARS_NON_BATTERY)),
         battery_depreciation |-> Zero,
         non_battery_depreciation |-> Zero,
         profit |-> Zero,
         tax_rate |-> Zero]

\* the revenue computation of one operating year
Revenue(self) ==
    LET mode == self["revenue_mode"]
        energy == mode = MODE_ARBITRAGE \/ mode = MODE_HYBRID
    IN  [charge_cost |->
            IF energy
            THEN RDiv(RMul(RMul(RMul(I(self["cycles_per_year"]), self["capacity_mwh"]),
                                self["charge_price"]), I(10000)), I(10000))
            ELSE Zero,
         discharge_revenue |->
            IF energy
            THEN RDiv(RMul(RMul(RMul(RMul(I(self["cycles_per_year"]), self["efficiency"]),
                                     self["capacity_mwh"]), self["discharge_price"]),
                           I(10000)), I(10000))
            ELSE Zero,
         lease_revenue |->
            IF mode = MODE_CAPACITY
            THEN RMul(self["lease_capacity"], self["lease_price"]) ELSE Zero,
         ancillary_revenue |->
            IF mode = MODE_HYBRID \/ mode = MODE_ANCILLARY
            THEN self["ancillary_revenue"] ELSE Zero]

\* mutant: lease revenue taxed at the electricity rate
VatSplit_mut(self, rev) ==
    IF self["revenue_mode"] = MODE_CAPACITY
    THEN LET rev_inc == rev.lease_revenue
             rev_exc == RDiv(rev.lease_revenue, RAdd(One, VAT_ELECTRICITY))
         IN  [rev_inc |-> rev_inc, rev_exc |-> rev_exc, output_vat |-> RSub(rev_inc, rev_exc)]
    ELSE LET rev_inc == RAdd(rev.discharge_revenue, rev.ancillary_revenue)
             rev_exc == RDiv(rev_inc, RAdd(One, VAT_ELECTRICITY))
         IN  [rev_inc |-> rev_inc, rev_exc |-> rev_exc, output_vat |-> RSub(rev_inc, rev_exc)]

\* revenue including and excluding tax, output VAT
VatSplit(self, rev) ==
    IF self["revenue_mode"] = MODE_CAPACITY
    THEN LET rev_inc == rev.lease_revenue
             rev_exc == RDiv(rev.lease_revenue, RAdd(One, VAT_CAPACITY))
         IN  [rev_inc |-> rev_inc, rev_exc |-> rev_exc, output_vat |-> RSub(rev_inc, rev_exc)]
    ELSE LET rev_inc == RAdd(rev.discharge_revenue, rev.ancillary_revenue)
             rev_exc == RDiv(rev_inc, RAdd(One, VAT_ELECTRICITY))
         IN  [rev_inc |-> rev_inc, rev_exc |-> rev_exc, output_vat |-> RSub(rev_inc, rev_exc)]

\* mutant: a partly covered year pays the whole output VAT
VatPool_mut(current_deductible, output_vat) ==
    IF RGt(current_deductible, Zero)
    THEN IF RGe(current_deductible, output_vat)
         THEN [current_deductible |-> RSub(current_deductible, output_vat), vat_pay |-> Zero]
         ELSE [current_deductible |-> Zero, vat_pay |-> output_vat]
    ELSE [current_deductible |-> current_deductible, vat_pay |-> output_vat]

\* the VAT credit pool logic
VatPool(current_deductible, output_vat) ==
    IF RGt(current_deductible, Zero)
    THEN IF RGe(current_deductible, output_vat)
         THEN [current_deductible |-> RSub(current_deductible, output_vat), vat_pay |-> Zero]
         ELSE [current_deductible |-> Zero, vat_pay |-> RSub(output_vat, current_deductible)]
    ELSE [current_deductible |-> current_deductible, vat_pay |-> output_vat]

\* mutant: the final operating year is not excluded (<= for <)
BatteryReplacement_mut(self, op_year) ==
    IF PyMod(op_year, self["battery_life"]) = 0 /\ op_year <= OPERATION_PERIOD
    THEN self["replacement_cost"] ELSE Zero

\* battery replacement cost of an operating year (battery_life # 0)
BatteryReplacement(self, op_year) ==
    IF PyMod(op_year, self["battery_life"]) = 0 /\ op_year < OPERATION_PERIOD
    THEN self["replacement_cost"] ELSE Zero

\* the two depreciation amounts of an operating year
BatteryDepreciation(self, battery_depreciation_per_year, op_year) ==
    IF op_year <= self["battery_life"] THEN battery_depreciation_per_year ELSE Zero

NonBatteryDepreciation(non_battery_depreciation_per_year, op_year) ==
    IF op_year <= DEPRECIATION_YEARS_NON_BATTERY
    THEN non_battery_depreciation_per_year ELSE Zero

\* pre-tax profit
Profit(self, rev_exc, charge_cost, om_cost, surtax, depreciation, battery_replacement) ==
    IF self["replacement_mode"] = REPLACEMENT_EXPENSE
    THEN RSub(RSub(RSub(RSub(RSub(rev_exc, charge_cost), om_cost), surtax),
                   depreciation), battery_replacement)
    ELSE RSub(RSub(RSub(RSub(rev_exc, charge_cost), om_cost), surtax), depreciation)

\* mutant: the tax holiday ends a year early (< for <=)
TaxRate_mut(op_year) ==
    IF op_year < 3 THEN Zero
    ELSE IF op_year <= 6 THEN RMul(INCOME_TAX_RATE, Q(1, 2))
    ELSE INCOME_TAX_RATE

\* the three-free, three-half income tax schedule
TaxRate(op_year) ==
    IF op_year <= 3 THEN Zero
    ELSE IF op_year <= 6 THEN RMul(INCOME_TAX_RATE, Q(1, 2))
    ELSE INCOME_TAX_RATE

IncomeTax(profit, tax_rate) == RMax(Zero, RMul(profit, tax_rate))

\* mutant: residual value and working capital also return a year early
Inflow_mut(self, y, rev, working_capital) ==
    LET inflow == RAdd(RAdd(rev.discharge_revenue, rev.lease_revenue),
                       rev.ancillary_revenue)
    IN  IF y >= OPERATION_PERIOD
        THEN RAdd(inflow, RAdd(RMul(self["static_invest"], RESIDUAL_RATIO),
                               working_capital))
        ELSE inflow

\* cash inflow of table year y: the three revenues, plus residual value and
\* working capital in the last year
Inflow(self, y, rev, working_capital) ==
    LET inflow == RAdd(RAdd(rev.discharge_revenue, rev.lease_revenue),
                       rev.ancillary_revenue)
    IN  IF y = OPERATION_PERIOD + 1
        THEN RAdd(inflow, RAdd(RMul(self["static_invest"], RESIDUAL_RATIO),
                               working_capital))
        ELSE inflow

\* the body of "for y in range(2, OPERATION_PERIOD + 2)": the locals after it
YearBody(self, l) ==
    LET y == l.y
        op_year == y - 1
        rev == Revenue(self)
        vat == VatSplit(self, rev)
        om_cost == get_om_rate(self, op_year)
        pool == VatPool(l.current_deductible, vat.output_vat)
        surtax == RMul(pool.vat_pay, SURTAX_RATE)
        battery_replacement == BatteryReplacement(self, op_year)
        depreciation ==
            RAdd(BatteryDepreciation(self, l.battery_depreciation_per_year, op_year),
                 NonBatteryDepreciation(l.non_battery_depreciation_per_year, op_year))
        profit == Profit(self, vat.rev_exc, rev.charge_cost, om_cost, surtax,
                         depreciation, battery_replacement)
        tax_rate == TaxRate(op_year)
        income_tax == IncomeTax(profit, tax_rate)
        inflow == Inflow(self, y, rev, l.working_capital)
        cost == RAdd(RAdd(RAdd(rev.charge_cost, om_cost), surtax), battery_replacement)
        outflow == RAdd(cost, income_tax)
        row == [l.df[y] EXCEPT
                  !["Charge_Cost"] = rev.charge_cost,
                  !["Discharge_Revenue"] = rev.discharge_revenue,
                  !["Lease_Revenue"] = rev.lease_revenue,
                  !["Ancillary_Revenue"] = rev.ancillary_revenue,
                  !["Revenue_Inc"] = vat.rev_inc,
                  !["Revenue_Exc"] = vat.rev_exc,
                  !["Output_VAT"] = vat.output_vat,
                  !["OM_Cost"] = om_cost,
                  !["VAT_Payable"] = pool.vat_pay,
                  !["Surtax"] = surtax,
                  !["Battery_Replacement"] = battery_replacement,
                  !["Depreciation"] = depreciation,
                  !["Income_Tax"] = income_tax,
                  !["Net_CF_Pre"] = RSub(inflow, cost),
                  !["Net_CF_After"] = RSub(inflow, outflow)]
    IN  [l EXCEPT !.y = y + 1,
                  !.df = [l.df EXCEPT ![y] = row],
                  !.current_deductible = pool.current_deductible,
                  !.battery_depreciation = BatteryDepreciation(self, l.battery_depreciation_per_year, op_year),
                  !.non_battery_depreciation = NonBatteryDepreciation(l.non_battery_depreciation_per_year, op_year),
                  !.profit = profit,
                  !.tax_rate = tax_rate]

-----------------------------------------------------------------------------
(* get_metrics: the static payback period                                   *)

\* cf[lo] + ... + cf[hi], lo <= hi (addition of exact amounts is associative,
\* so the sum is split in halves to keep the evaluation shallow)
RECURSIVE SumRange(_, _, _)
SumRange(cf, lo, hi) ==
    IF lo = hi THEN cf[lo]
    ELSE LET mid == (lo + hi) \div 2
         IN  RAdd(SumRange(cf, lo, mid), SumRange(cf, mid + 1, hi))

\* np.cumsum(cf)[i] for a series indexed from 0
cumsum(cf, i) == SumRange(cf, 0, i)

SetMin(S) == CHOOSE x \in S : \A z \in S : x <= z

\* mutant: interpolation starts from the crossing year, not the year before
Payback_mut(cf_after) ==
    LET positive_indices == {i \in DOMAIN cf_after : RGe(cumsum(cf_after, i), Zero)}
    IN  IF positive_indices # {}
        THEN LET p_idx == SetMin(positive_indices)
             IN  IF p_idx > 0
                 THEN RAdd(I(p_idx),
                           RDiv(RAbs(cumsum(cf_after, p_idx - 1)), cf_after[p_idx]))
                 ELSE One
        ELSE Q(999, 10)

Payback(cf_after) ==
    LET positive_indices == {i \in DOMAIN cf_after : RGe(cumsum(cf_after, i), Zero)}
    IN  IF positive_indices # {}
        THEN LET p_idx == SetMin(positive_indices)
             IN  IF p_idx > 0
                 THEN RAdd(I(p_idx - 1),
                           RDiv(RAbs(cumsum(cf_after, p_idx - 1)), cf_after[p_idx]))
                 ELSE One
        ELSE Q(999, 10)

\* self.df['Net_CF_After'].values: the column as a 0-based array
Column(table, c) == [i \in 0 .. OPERATION_PERIOD |-> table[i + 1][c]]

-----------------------------------------------------------------------------
(* The project as a state machine                                          *)

\* calls of calculate_cash_flow modelled on one project
MaxCalls == 2

ExportMethods == { "export_revenue_tax_table", "export_total_cost_table",
                   "export_profit_table", "export_financial_summary_table" }

VARIABLES
    p,               \* the params dict handed to the constructor
    phase,           \* "new", "ready" (constructor returned), "rejected" (it raised)
    self,            \* the validated attributes of the project
    df,              \* self.df
    total_invest,    \* self.total_invest
    const_interest,  \* self.const_interest
    pc,              \* "idle", or "loop" inside calculate_cash_flow
    loc,             \* the locals of the running calculate_cash_flow
    calls,           \* calls of calculate_cash_flow so far
    last,            \* the latest call (running while pc = "loop")
    raised,          \* the exception it raised, or "none"
    named,           \* the fields an InputValidationError message names
    ret,             \* the value it returned, None so far while it runs
    payback,         \* the local payback of the latest call, if get_metrics ran in it
    base_params,     \* storage_sensitivity_analysis: its four arguments
    factor,
    variation_range,
    steps,
    variations,      \* np.linspace(-variation_range, variation_range, steps)
    sweep_k,         \* the position of "for var in variations" (from 1)
    results,         \* the rows appended so far
    sweep_pc,        \* "off" (no sweep), "start", "loop", "try", "done", "raised"
    sweep_raised     \* the exception the sweep itself raised, or "none"

\* the state of one StorageProject and of the calls made on it
project == << p, phase, self, df, total_invest, const_interest, pc, loc, calls,
              last, raised, named, ret, payback >>

\* the state of one storage_sensitivity_analysis call
sweep == << base_params, factor, variation_range, steps, variations, sweep_k, results,
            sweep_pc, sweep_raised >>

vars == << p, phase, self, df, total_invest, const_interest, pc, loc, calls,
           last, raised, named, ret, payback, base_params, factor,
           variation_range, steps, variations, sweep_k, results, sweep_pc,
           sweep_raised >>

Init ==
    /\ p \in Inputs
    /\ phase = "new"
    /\ self = None
    /\ df = None
    /\ total_invest = Zero
    /\ const_interest = Zero
    /\ pc = "idle"
    /\ loc = None
    /\ calls = 0
    /\ last = "none"
    /\ raised = "none"
    /\ named = {}
    /\ ret = None
    /\ payback = None
    /\ base_params = None /\ factor = "" /\ variation_range = Zero /\ steps = 0
    /\ variations = << >> /\ sweep_k = 0 /\ results = << >>
    /\ sweep_pc = "off" /\ sweep_raised = "none"

\* StorageProject.__init__
StorageProject_init ==
    /\ UNCHANGED sweep
    /\ phase = "new"
    /\ LET v == validate_and_init_params(p)
       IN  /\ phase' = IF v.exc = "none" THEN "ready" ELSE "rejected"
           /\ self' = v.attrs
           /\ raised' = v.exc
           /\ named' = v.named
    /\ last' = "__init__"
    /\ UNCHANGED << p, df, total_invest, const_interest, pc, loc, calls, ret, payback >>

\* mutant: self.df is assigned as soon as the table is initialised
calculate_cash_flow_begin_mut ==
    /\ UNCHANGED sweep
    /\ phase = "ready" /\ pc = "idle" /\ calls < MaxCalls
    /\ calls' = calls + 1
    /\ IF self["battery_life"] = 0
       THEN \* ZeroDivisionError, caught and re-raised as CalculationError
            /\ pc' = "idle"
            /\ loc' = None
            /\ last' = "calculate_cash_flow"
            /\ raised' = CalculationError
            /\ ret' = None
       ELSE /\ pc' = "loop"
            /\ loc' = BeginLocals(p, self)
            /\ last' = "calculate_cash_flow"
            /\ raised' = "none"
            /\ ret' = None
    /\ payback' = None
    /\ df' = InitialTable(self, RMul(self["static_invest"], Q(1, 100)))
    /\ UNCHANGED << p, phase, self, total_invest, const_interest, named >>

\* mutant: self.total_invest and self.const_interest are assigned as soon as
\* they are computed
calculate_cash_flow_begin_mut_invest ==
    /\ UNCHANGED sweep
    /\ phase = "ready" /\ pc = "idle" /\ calls < MaxCalls
    /\ calls' = calls + 1
    /\ IF self["battery_life"] = 0
       THEN \* ZeroDivisionError, caught and re-raised as CalculationError
            /\ pc' = "idle"
            /\ loc' = None
            /\ last' = "calculate_cash_flow"
            /\ raised' = CalculationError
            /\ ret' = None
       ELSE /\ pc' = "loop"
            /\ loc' = BeginLocals(p, self)
            /\ last' = "calculate_cash_flow"
            /\ raised' = "none"
            /\ ret' = None
    /\ payback' = None
    /\ total_invest' = RAdd(RAdd(self["static_invest"], calc_construction_interest(self)),
                            RMul(self["static_invest"], Q(1, 100)))
    /\ const_interest' = calc_construction_interest(self)
    /\ UNCHANGED << p, phase, self, df, named >>

\* mutant: the pool lives on the project and is not refilled, so a call made
\* after a completed one starts with an empty pool
calculate_cash_flow_begin_mut_pool ==
    /\ UNCHANGED sweep
    /\ phase = "ready" /\ pc = "idle" /\ calls < MaxCalls
    /\ calls' = calls + 1
    /\ IF self["battery_life"] = 0
       THEN /\ pc' = "idle"
            /\ loc' = None
            /\ last' = "calculate_cash_flow"
            /\ raised' = CalculationError
            /\ ret' = None
       ELSE /\ pc' = "loop"
            /\ loc' = [BeginLocals(p, self) EXCEPT
                         !.current_deductible = IF df # None THEN Zero ELSE @]
            /\ last' = "calculate_cash_flow"
            /\ raised' = "none"
            /\ ret' = None
    /\ payback' = None
    /\ UNCHANGED << p, phase, self, df, total_invest, const_interest, named >>

\* calculate_cash_flow up to the year loop (A, B and the depreciation setup)
calculate_cash_flow_begin ==
    /\ UNCHANGED sweep
    /\ phase = "ready" /\ pc = "idle" /\ calls < MaxCalls
    /\ calls' = calls + 1
    /\ IF self["battery_life"] = 0
       THEN \* ZeroDivisionError, caught and re-raised as CalculationError
            /\ pc' = "idle"
            /\ loc' = None
            /\ last' = "calculate_cash_flow"
            /\ raised' = CalculationError
            /\ ret' = None
       ELSE /\ pc' = "loop"
            /\ loc' = BeginLocals(p, self)
            /\ last' = "calculate_cash_flow"
            /\ raised' = "none"
            /\ ret' = None
    /\ payback' = None
    /\ UNCHANGED << p, phase, self, df, total_invest, const_interest, named >>

\* one iteration of the year loop
calculate_cash_flow_year ==
    /\ UNCHANGED sweep
    /\ pc = "loop" /\ loc.y <= OPERATION_PERIOD + 1
    /\ loc' = YearBody(self, loc)
    /\ UNCHANGED << p, phase, self, df, total_invest, const_interest, pc, calls,
                    last, raised, named, ret, payback >>

\* after the loop: store the table and return it
calculate_cash_flow_return ==
    /\ UNCHANGED sweep
    /\ pc = "loop" /\ loc.y > OPERATION_PERIOD + 1
    /\ df' = loc.df
    /\ total_invest' = loc.total_invest
    /\ const_interest' = loc.const_interest
    /\ pc' = "idle"
    /\ loc' = None
    /\ last' = "calculate_cash_flow"
    /\ raised' = "none"
    /\ ret' = loc.df
    /\ UNCHANGED << p, phase, self, calls, named, payback >>

\* get_metrics (the two IRR values come from numpy_financial and are not
\* represented; every other entry of the returned dict is)
get_metrics ==
    /\ UNCHANGED sweep
    /\ phase = "ready" /\ pc = "idle"
    /\ last' = "get_metrics"
    /\ IF df = None
       THEN /\ raised' = CalculationError
            /\ ret' = None
            /\ payback' = None
       ELSE LET pb == Payback(Column(df, "Net_CF_After"))
            IN  /\ raised' = "none"
                /\ payback' = pb
                /\ ret' = [total_invest |-> PyRound2(total_invest),
                           const_interest |-> PyRound2(const_interest),
                           payback |-> PyRound2(pb)]
    /\ UNCHANGED << p, phase, self, df, total_invest, const_interest, pc, loc,
                    calls, named >>

\* the four export_* methods: the guard, and the operating-year rows they read
export_table(name) ==
    /\ UNCHANGED sweep
    /\ phase = "ready" /\ pc = "idle"
    /\ last' = name
    /\ IF df = None
       THEN /\ raised' = CalculationError
            /\ ret' = None
            /\ payback' = None
       ELSE /\ raised' = "none"
            /\ ret' = [y \in 2 .. (OPERATION_PERIOD + 1) |-> df[y]]
            /\ payback' = IF name = "export_financial_summary_table"
                          THEN Payback(Column(df, "Net_CF_After"))
                          ELSE None
    /\ UNCHANGED << p, phase, self, df, total_invest, const_interest, pc, loc,
                    calls, named >>

Next ==
    \/ StorageProject_init
    \/ calculate_cash_flow_begin
    \/ calculate_cash_flow_year
    \/ calculate_cash_flow_return
    \/ get_metrics
    \/ \E name \in ExportMethods : export_table(name)

Spec == Init /\ [][Next]_vars

-----------------------------------------------------------------------------
(* storage_sensitivity_analysis                                             *)

\* the largest step count of the modelled sweeps
MaxSteps == 3

\* base parameter sets of the modelled sweeps
SweepBases ==
    { ("power_mw" :> I(10)) @@ ("capacity_mwh" :> I(20)) @@ ("static_invest" :> I(11300))
          @@ ("capital_ratio" :> One) @@ ("revenue_mode" :> MODE_ARBITRAGE)
          @@ ("cycles_per_year" :> I(226)) @@ ("efficiency" :> One)
          @@ ("battery_life" :> One),
      ("power_mw" :> I(10)) @@ ("capacity_mwh" :> I(20)) @@ ("static_invest" :> I(11300))
          @@ ("capital_ratio" :> One) @@ ("revenue_mode" :> MODE_CAPACITY)
          @@ ("lease_capacity" :> I(53)) @@ ("lease_price" :> I(100)) }

SweepFactors ==
    { "power_mw", "static_invest", "efficiency", "battery_life", "revenue_mode",
      "loan_term" }

SweepRanges == { Q(1, 10), I(2) }

\* np.linspace(start, stop, num)
linspace(start, stop, num) ==
    IF num = 1 THEN << start >>
    ELSE [i \in 1 .. num |->
            IF i = num THEN stop
            ELSE RAdd(start, RMul(I(i - 1), RDiv(RSub(stop, start), I(num - 1))))]

\* f'{var*100:+.1f}': the percentage rounded to one decimal (ties to even),
\* as a signed number of tenths of a percent
FormatPct(var) ==
    LET x == RMul(var, I(1000))
        fl == IF x[1] >= 0 THEN x[1] \div x[2] ELSE -((-x[1] + x[2] - 1) \div x[2])
        r == x[1] - fl * x[2]
    IN  IF 2 * r > x[2] \/ (2 * r = x[2] /\ fl % 2 # 0) THEN fl + 1 ELSE fl

\* the params that hold a str (base_value * (1 + var) raises TypeError on
\* one); every other value of a modelled parameter set is a number
StrParams == { "revenue_mode", "ancillary_type", "replacement_mode" }

SweepInit ==
    /\ base_params \in SweepBases
    /\ factor \in SweepFactors
    /\ variation_range \in SweepRanges
    /\ steps \in 0 .. MaxSteps
    /\ variations = << >> /\ sweep_k = 0 /\ results = << >>
    /\ sweep_pc = "start" /\ sweep_raised = "none"
    /\ p = None /\ phase = "none" /\ self = None /\ df = None
    /\ total_invest = Zero /\ const_interest = Zero /\ pc = "idle" /\ loc = None
    /\ calls = 0 /\ last = "none" /\ raised = "none" /\ named = {}
    /\ ret = None /\ payback = None

\* the function up to the loop: the unknown-factor check and the variations
sweep_begin ==
    /\ sweep_pc = "start"
    /\ IF factor \notin DOMAIN base_params
       THEN \* base_params.get(factor) is None
            /\ sweep_pc' = "raised" /\ sweep_raised' = "ValueError"
            /\ UNCHANGED << variations, sweep_k >>
       ELSE /\ variations' = linspace(RNeg(variation_range), variation_range, steps)
            /\ sweep_k' = 1
            /\ sweep_pc' = "loop" /\ UNCHANGED sweep_raised
    /\ UNCHANGED << base_params, factor, variation_range, steps, results >>
    /\ UNCHANGED project

\* the head of one iteration: the copy of base_params with the factor varied
\* (outside the try block), then a new StorageProject on it
sweep_step ==
    /\ sweep_pc = "loop" /\ sweep_k <= Len(variations)
    /\ IF factor \in StrParams
       THEN \* str * float: TypeError, raised outside the try block
            /\ sweep_pc' = "raised" /\ sweep_raised' = "TypeError"
            /\ UNCHANGED project
       ELSE LET var == variations[sweep_k]
                new_value == RMul(base_params[factor], RAdd(One, var))
            IN  /\ p' = [base_params EXCEPT ![factor] = new_value]
                /\ phase' = "new" /\ self' = None /\ df' = None
                /\ total_invest' = Zero /\ const_interest' = Zero
                /\ pc' = "idle" /\ loc' = None /\ calls' = 0
                /\ last' = "none" /\ raised' = "none" /\ named' = {}
                /\ ret' = None /\ payback' = None
                /\ sweep_pc' = "try" /\ UNCHANGED sweep_raised
    /\ UNCHANGED << base_params, factor, variation_range, steps, variations,
                    sweep_k, results >>

\* the end of one iteration: the row appended by the try block after
\* get_metrics returned, or by the except block after any of the three calls
\* raised (the IRR itself comes from numpy_financial; the row records "IRR")
sweep_append ==
    /\ sweep_pc = "try" /\ pc = "idle"
    /\ \/ phase = "rejected"
       \/ last = "calculate_cash_flow" /\ raised # "none"
       \/ last = "get_metrics"
    /\ LET var == variations[sweep_k]
           ok == last = "get_metrics" /\ raised = "none"
       IN  results' = Append(results,
                             [factor |-> factor,
                              variation |-> FormatPct(var),
                              value |-> p[factor],
                              irr |-> IF ok THEN "IRR" ELSE None])
    /\ sweep_k' = sweep_k + 1
    /\ sweep_pc' = "loop"
    /\ UNCHANGED << base_params, factor, variation_range, steps, variations,
                    sweep_raised >>
    /\ UNCHANGED project

\* after the loop: the rows become the returned DataFrame
sweep_return ==
    /\ sweep_pc = "loop" /\ sweep_k > Len(variations)
    /\ sweep_pc' = "done"
    /\ UNCHANGED << base_params, factor, variation_range, steps, variations,
                    sweep_k, results, sweep_raised >>
    /\ UNCHANGED project

\* one sweep: its own steps and, inside the try block, the calls on the
\* project of the current step in the order of lines 753-755
SweepNext ==
    \/ sweep_begin
    \/ sweep_step
    \/ sweep_pc = "try" /\ StorageProject_init
    \/ sweep_pc = "try" /\ last = "__init__" /\ calculate_cash_flow_begin
    \/ sweep_pc = "try" /\ calculate_cash_flow_year
    \/ sweep_pc = "try" /\ calculate_cash_flow_return
    \/ sweep_pc = "try" /\ last = "calculate_cash_flow" /\ raised = "none" /\ get_metrics
    \/ sweep_append
    \/ sweep_return

SweepSpec == SweepInit /\ [][SweepNext]_vars

-----------------------------------------------------------------------------
(* Properties                                                               *)

\* C1: for every parameter set the constructor accepts, a finished call of
\* calculate_cash_flow has returned a table with exactly the 21 year records
\* 1..21; in year 1 every revenue, cost, tax and depreciation field is zero
\* and both net cash flows equal -(static_invest + 0.01 * static_invest),
\* which is strictly negative.
C1_Claim ==
    (last = "calculate_cash_flow" /\ pc = "idle") =>
        /\ raised = "none"
        /\ DOMAIN ret = 1 .. 21
        /\ \A c \in cols \ {"Net_CF_Pre", "Net_CF_After"} : ret[1][c] = Zero
        /\ LET out == RNeg(RAdd(p["static_invest"], RMul(Q(1, 100), p["static_invest"])))
           IN  /\ ret[1]["Net_CF_Pre"] = out
               /\ ret[1]["Net_CF_After"] = out
               /\ RLt(out, Zero)

\* C2: during one pass of calculate_cash_flow the tax-credit pool
\* current_deductible is never negative at a year boundary, never increases
\* from one operating year to the next, and stays zero once it is zero.
C2_Claim ==
    [][ pc = "loop" =>
          /\ RGe(loc.current_deductible, Zero)
          /\ pc' = "loop" =>
               /\ RLe(loc'.current_deductible, loc.current_deductible)
               /\ (loc.current_deductible = Zero => loc'.current_deductible = Zero) ]_vars

\* C3: in every operating year y of every table, Battery_Replacement is
\* replacement_cost if battery_life divides y and y < 20, and 0 otherwise; so
\* operating year 20 never carries a replacement cost.
C3_BatteryReplacement ==
    LET Divides(L, y) == \E k \in -20 .. 20 : k * L = y
        Expected(op) ==
            IF Divides(self["battery_life"], op) /\ op < 20
            THEN self["replacement_cost"] ELSE Zero
    IN  /\ df # None =>
              /\ \A op \in 1 .. 20 : df[op + 1]["Battery_Replacement"] = Expected(op)
              /\ df[21]["Battery_Replacement"] = Zero
        /\ pc = "loop" =>
              \A op \in 1 .. (loc.y - 2) :
                  loc.df[op + 1]["Battery_Replacement"] = Expected(op)

\* C3 witness: battery_life = 10 divides both 10 and 20; the stored table has
\* the replacement cost in operating year 10 and none in operating year 20.
C3_Witness ==
    /\ df # None
    /\ self["battery_life"] = 10
    /\ RGt(self["replacement_cost"], Zero)
    /\ df[11]["Battery_Replacement"] = self["replacement_cost"]
    /\ df[21]["Battery_Replacement"] = Zero

\* C4: Income_Tax of an operating year is max(0, profit * rate), the rate
\* being 0 in years 1..3, 12.5% in years 4..6 and 25% from year 7; so it is
\* never negative, 0 in years 1..3 and 0 whenever the profit is negative.
C4_IncomeTax ==
    LET rate(op) == IF op \in 1 .. 3 THEN Zero
                    ELSE IF op \in 4 .. 6 THEN Q(125, 1000) ELSE Q(25, 100)
    IN  /\ (pc = "loop" /\ loc.y > 2) =>
              LET op == loc.y - 2
                  tax == loc.df[op + 1]["Income_Tax"]
                  due == RMul(loc.profit, rate(op))
              IN  /\ tax = IF RGt(due, Zero) THEN due ELSE Zero
                  /\ RLt(loc.profit, Zero) => tax = Zero
        /\ pc = "loop" =>
              /\ \A y \in years : RGe(loc.df[y]["Income_Tax"], Zero)
              /\ \A y \in 1 .. 4 : loc.df[y]["Income_Tax"] = Zero
        /\ df # None =>
              /\ \A y \in years : RGe(df[y]["Income_Tax"], Zero)
              /\ \A y \in 1 .. 4 : df[y]["Income_Tax"] = Zero

\* C4 witness: an operating year of the half-rate tier has just been
\* computed with a positive profit, and the tax is an eighth of it.
C4_Witness ==
    /\ pc = "loop" /\ loc.y - 2 \in 4 .. 6
    /\ RGt(loc.profit, Zero)
    /\ loc.df[loc.y - 1]["Income_Tax"] = RMul(loc.profit, Q(1, 8))

\* C5: Depreciation is zero in every operating year beyond battery_life and
\* beyond 15; neither schedule's yearly amount is negative; the battery
\* amounts charged in operating years 1..battery_life sum to 95% of
\* battery_asset_value.
C5_Claim ==
    pc = "loop" =>
        LET L == self["battery_life"]
            nonBattery(op) == IF op <= 15 THEN loc.non_battery_depreciation_per_year
                              ELSE Zero
            battery(op) == RSub(loc.df[op + 1]["Depreciation"], nonBattery(op))
            RECURSIVE Sum(_, _)
            Sum(lo, hi) == IF lo = hi THEN battery(lo)
                           ELSE LET mid == (lo + hi) \div 2
                                IN  RAdd(Sum(lo, mid), Sum(mid + 1, hi))
        IN  /\ \A op \in 1 .. (loc.y - 2) :
                  (op > L /\ op > 15) => loc.df[op + 1]["Depreciation"] = Zero
            /\ RGe(loc.battery_depreciation, Zero)
            /\ RGe(loc.non_battery_depreciation, Zero)
            /\ (L >= 1 /\ (loc.y - 2 >= L \/ loc.y - 2 = 20)) =>
                  Sum(1, IF L <= 20 THEN L ELSE 20) =
                      RMul(loc.battery_asset_value, Q(95, 100))

\* C6: a project whose constructor returned satisfies every parameter
\* invariant (power > 0, capacity > 0, 0 < efficiency <= 1, static
\* investment > 0, 0 < capital ratio <= 1, 0 < battery share <= 1, battery
\* life >= 1, revenue mode one of the four); a constructor that raised,
\* raised InputValidationError, so that no violation is left for
\* calculate_cash_flow to meet.
C6_Claim ==
    /\ phase = "ready" =>
          /\ RGt(self["power_mw"], Zero)
          /\ RGt(self["capacity_mwh"], Zero)
          /\ RGt(self["efficiency"], Zero) /\ RLe(self["efficiency"], One)
          /\ RGt(self["static_invest"], Zero)
          /\ RGt(self["capital_ratio"], Zero) /\ RLe(self["capital_ratio"], One)
          /\ RGt(self["battery_asset_ratio"], Zero) /\ RLe(self["battery_asset_ratio"], One)
          /\ self["battery_life"] >= 1
          /\ self["revenue_mode"] \in {"arbitrage", "capacity", "ancillary", "hybrid"}
    /\ phase = "rejected" => raised = InputValidationError

\* C7: when construction fails, the one InputValidationError names every
\* offending field: every missing required key, every out-of-range numeric
\* field and every missing field of the selected revenue mode.
C7_Claim ==
    LET has(k) == k \in DOMAIN p
        missing == {k \in {"power_mw", "capacity_mwh", "static_invest"} : ~has(k)}
        nonPositive == {k \in {"power_mw", "capacity_mwh", "static_invest"} :
                          has(k) /\ RLe(p[k], Zero)}
        notShare == {k \in {"efficiency", "capital_ratio", "battery_asset_ratio"} :
                        has(k) /\ ~(RGt(p[k], Zero) /\ RLe(p[k], One))}
        mode == IF has("revenue_mode") THEN p["revenue_mode"] ELSE "arbitrage"
        modeFields == IF mode = "capacity" THEN {"lease_capacity", "lease_price"}
                      ELSE IF mode = "ancillary" THEN {"ancillary_type", "ancillary_revenue"}
                      ELSE {}
        modeMissing == {k \in modeFields : ~has(k)}
    IN  phase = "rejected" =>
            /\ raised = InputValidationError
            /\ (missing \cup nonPositive \cup notShare \cup modeMissing) \subseteq named

\* C8: every operating year is under exactly one VAT treatment.  Capacity
\* mode: Revenue_Inc = Lease_Revenue = lease_capacity * lease_price, the same
\* in all 20 years, Discharge_Revenue, Ancillary_Revenue and Charge_Cost are
\* 0, rate 6%.  Every other mode: Lease_Revenue = 0, Revenue_Inc =
\* Discharge_Revenue + Ancillary_Revenue, rate 13%.  In both,
\* Revenue_Exc * (1 + rate) = Revenue_Inc and
\* Output_VAT = Revenue_Inc - Revenue_Exc.
C8_VatTreatment ==
    LET capacity == Get(p, "revenue_mode", "arbitrage") = "capacity"
        Row(r) ==
            /\ IF capacity
               THEN /\ r["Lease_Revenue"] = RMul(p["lease_capacity"], p["lease_price"])
                    /\ r["Revenue_Inc"] = r["Lease_Revenue"]
                    /\ r["Discharge_Revenue"] = Zero
                    /\ r["Ancillary_Revenue"] = Zero
                    /\ r["Charge_Cost"] = Zero
                    /\ RMul(r["Revenue_Exc"], Q(106, 100)) = r["Revenue_Inc"]
               ELSE /\ r["Lease_Revenue"] = Zero
                    /\ r["Revenue_Inc"] = RAdd(r["Discharge_Revenue"], r["Ancillary_Revenue"])
                    /\ RMul(r["Revenue_Exc"], Q(113, 100)) = r["Revenue_Inc"]
            /\ r["Output_VAT"] = RSub(r["Revenue_Inc"], r["Revenue_Exc"])
    IN  /\ df # None => \A y \in 2 .. 21 : Row(df[y])
        /\ pc = "loop" => \A y \in 2 .. (loc.y - 1) : Row(loc.df[y])

\* C8 witness: a stored capacity-mode table whose lease revenue 53 * 100 is
\* taxed at 6% (5000 excluding tax, 300 output VAT) in the last year too.
C8_Witness ==
    /\ df # None
    /\ self["revenue_mode"] = MODE_CAPACITY
    /\ df[21]["Revenue_Inc"] = I(5300)
    /\ df[21]["Revenue_Exc"] = I(5000)
    /\ df[21]["Output_VAT"] = I(300)

\* C9: get_metrics and every export_* method raise CalculationError as long
\* as no calculate_cash_flow call on the project has completed: self.df is
\* None at construction, it is only ever replaced by the full 21-row table
\* of a call that ran all 20 operating years and returned, and the five
\* methods raise CalculationError exactly while it is None.
C9_MetricsNeedTable ==
    [][ /\ (phase = "new" /\ phase' = "ready") => df' = None
        /\ df' # df =>
              /\ pc = "loop" /\ pc' = "idle"
              /\ loc.y = 22
              /\ last' = "calculate_cash_flow" /\ raised' = "none"
              /\ df' = loc.df /\ DOMAIN df' = 1 .. 21
        /\ last' \in ExportMethods \cup {"get_metrics"} =>
              /\ df' = df
              /\ df = None => (raised' = CalculationError /\ ret' = None)
              /\ df # None => raised' = "none" ]_vars

\* C9 witness: a calculate_cash_flow call has been made and has failed, and
\* the get_metrics call after it raised CalculationError.
C9_Witness ==
    /\ calls >= 1
    /\ df = None
    /\ last = "get_metrics"
    /\ raised = CalculationError

\* C10: with p the smallest 0-based index at which the running sum of the 21
\* Net_CF_After entries is >= 0, the payback computed by get_metrics is 99.9
\* (and nothing is raised) if there is no such index, 1 if p = 0, and
\* (p - 1) + |cumulative[p - 1]| / cashflow[p] otherwise, whatever the sum does
\* in later years.
C10_Payback ==
    (last = "get_metrics" /\ df # None) =>
        LET cf(i) == df[i + 1]["Net_CF_After"]
            RECURSIVE Sum(_, _)
            Sum(lo, hi) == IF lo = hi THEN cf(lo)
                           ELSE LET mid == (lo + hi) \div 2
                                IN  RAdd(Sum(lo, mid), Sum(mid + 1, hi))
            Cum(i) == Sum(0, i)
            first(i) == RGe(Cum(i), Zero) /\ \A j \in 0 .. (i - 1) : RLt(Cum(j), Zero)
        IN  /\ raised = "none"
            /\ (\A i \in 0 .. 20 : RLt(Cum(i), Zero)) => payback = Q(999, 10)
            /\ first(0) => payback = One
            /\ \A i \in 1 .. 20 :
                  first(i) => payback = RAdd(I(i - 1), RDiv(RAbs(Cum(i - 1)), cf(i)))

\* C10 witness: get_metrics returned a payback inside the horizon although
\* the running sum is negative again in a later year.
C10_Witness ==
    /\ last = "get_metrics" /\ raised = "none"
    /\ payback # Q(999, 10)
    /\ \E i \in 1 .. 19 : \E j \in (i + 1) .. 20 :
           /\ RGe(cumsum(Column(df, "Net_CF_After"), i), Zero)
           /\ RLt(cumsum(Column(df, "Net_CF_After"), j), Zero)

\* C13: after successful construction battery_life is the caller's
\* battery_life whenever that key is supplied, in every revenue mode (int() of
\* it, which is the value itself for a whole number of years); when it is not
\* supplied, battery_life is 4 in ancillary mode with ancillary_type
\* "frequency" and 10 in every other case.
C13_BatteryLife ==
    phase = "ready" =>
        IF "battery_life" \in DOMAIN p
        THEN /\ self["battery_life"] = PyInt(p["battery_life"])
             /\ p["battery_life"][2] = 1 => self["battery_life"] = p["battery_life"][1]
        ELSE IF self["revenue_mode"] = MODE_ANCILLARY /\ p["ancillary_type"] = "frequency"
        THEN self["battery_life"] = 4
        ELSE self["battery_life"] = 10

\* C13 witness: a frequency-regulation project built with a supplied battery
\* life of 25 years.
C13_Witness ==
    /\ phase = "ready"
    /\ self["revenue_mode"] = MODE_ANCILLARY /\ p["ancillary_type"] = "frequency"
    /\ "battery_life" \in DOMAIN p /\ p["battery_life"] = I(25)
    /\ self["battery_life"] = 25

\* C14: in the table returned by calculate_cash_flow, Profit_Total of every
\* operating year is Revenue_Exc - Charge_Cost - OM_Cost - Surtax -
\* Depreciation, minus Battery_Replacement when replacement_mode is "expense"
\* and without that subtraction otherwise; and while the table is built, the
\* row just written carries the profit the year's Income_Tax was computed from.
C14_Claim ==
    LET expected(row) ==
            LET base == RSub(RSub(RSub(RSub(row["Revenue_Exc"], row["Charge_Cost"]),
                                       row["OM_Cost"]), row["Surtax"]),
                             row["Depreciation"])
            IN  IF self["replacement_mode"] = REPLACEMENT_EXPENSE
                THEN RSub(base, row["Battery_Replacement"])
                ELSE base
    IN  /\ df # None =>
              \A y \in 2 .. (OPERATION_PERIOD + 1) :
                  df[y]["Profit_Total"] = expected(df[y])
        /\ (pc = "loop" /\ loc.y > 2) =>
              loc.df[loc.y - 1]["Profit_Total"] = loc.profit

\* C15: in every operating year, with pool the tax-credit pool at the start
\* of the year: VAT_Payable = max(0, Output_VAT - pool), the pool at the end
\* of the year is pool - min(pool, Output_VAT), and Surtax is 10% of
\* VAT_Payable.
C15_Claim ==
    [][calculate_cash_flow_year =>
          LET pool == loc.current_deductible
              row == loc'.df[loc.y]
              min(a, b) == IF RLe(a, b) THEN a ELSE b
          IN  /\ row["VAT_Payable"] = RMax(Zero, RSub(row["Output_VAT"], pool))
              /\ loc'.current_deductible = RSub(pool, min(pool, row["Output_VAT"]))
              /\ row["Surtax"] = RMul(row["VAT_Payable"], Q(10, 100))]_vars

\* C18: after every operating year k of a calculate_cash_flow pass, the sum of
\* Output_VAT over operating years 1..k equals the sum of VAT_Payable over
\* years 1..k plus the credit consumed so far (initial pool - current pool),
\* whichever branch of the pool logic each year takes.
C18_VatConservation ==
    (pc = "loop" /\ loc.y > 2) =>
        LET out == [y \in 2 .. (loc.y - 1) |-> loc.df[y]["Output_VAT"]]
            pay == [y \in 2 .. (loc.y - 1) |-> loc.df[y]["VAT_Payable"]]
        IN  SumRange(out, 2, loc.y - 1) =
                RAdd(SumRange(pay, 2, loc.y - 1),
                     RSub(loc.deductible_tax, loc.current_deductible))

\* C18 witness: a pass in which one year was covered by the pool in full, a
\* later year in part, and a year after that not at all.
C18_Witness ==
    /\ pc = "loop" /\ loc.y > 4
    /\ \E a, b, c \in 2 .. (loc.y - 1) :
          /\ a < b /\ b < c
          /\ RGt(loc.df[a]["Output_VAT"], Zero) /\ loc.df[a]["VAT_Payable"] = Zero
          /\ RGt(loc.df[b]["VAT_Payable"], Zero)
          /\ RLt(loc.df[b]["VAT_Payable"], loc.df[b]["Output_VAT"])
          /\ loc.df[c]["VAT_Payable"] = loc.df[c]["Output_VAT"]

\* C16: in every operating year of a table, Net_CF_Pre = inflow - (Charge_Cost
\* + OM_Cost + Surtax + Battery_Replacement) and Net_CF_After = Net_CF_Pre -
\* Income_Tax, where inflow = Discharge_Revenue + Lease_Revenue +
\* Ancillary_Revenue, plus 5% of static_invest (residual value) and 1% of
\* static_invest (working capital) in table year 21 and in no other year;
\* Net_CF_After <= Net_CF_Pre in every year, with equality in the construction
\* year and in operating years 1..3.  Checked on every stored table and on
\* the rows already written of a table being built.
C16_CashFlow ==
    LET ok(row, y) ==
            LET revenue == RAdd(RAdd(row["Discharge_Revenue"], row["Lease_Revenue"]),
                                row["Ancillary_Revenue"])
                inflow == IF y = 21
                          THEN RAdd(revenue, RAdd(RMul(self["static_invest"], Q(5, 100)),
                                                  RMul(self["static_invest"], Q(1, 100))))
                          ELSE revenue
                cost == RAdd(RAdd(RAdd(row["Charge_Cost"], row["OM_Cost"]), row["Surtax"]),
                             row["Battery_Replacement"])
            IN  /\ row["Net_CF_Pre"] = RSub(inflow, cost)
                /\ row["Net_CF_After"] = RSub(row["Net_CF_Pre"], row["Income_Tax"])
        le(row, y) ==
            /\ RLe(row["Net_CF_After"], row["Net_CF_Pre"])
            /\ y <= 4 => row["Net_CF_After"] = row["Net_CF_Pre"]
    IN  /\ df # None =>
              /\ \A y \in 2 .. 21 : ok(df[y], y)
              /\ \A y \in 1 .. 21 : le(df[y], y)
        /\ pc = "loop" =>
              /\ \A y \in 2 .. (loc.y - 1) : ok(loc.df[y], y)
              /\ \A y \in 1 .. (loc.y - 1) : le(loc.df[y], y)

\* C16 witness: a returned table whose last year pays income tax, so that the
\* after-tax flow is strictly below the pre-tax flow, and whose last-year
\* pre-tax flow exceeds the one of the year before by the residual value and
\* the working capital.
C16_Witness ==
    /\ last = "calculate_cash_flow" /\ pc = "idle" /\ df # None
    /\ RGt(df[21]["Income_Tax"], Zero)
    /\ RLt(df[21]["Net_CF_After"], df[21]["Net_CF_Pre"])
    /\ RSub(df[21]["Net_CF_Pre"], df[20]["Net_CF_Pre"]) =
           RMul(self["static_invest"], Q(6, 100))

\* C17: a calculate_cash_flow call that fails raises CalculationError and
\* leaves self.df, self.total_invest and self.const_interest exactly as they
\* were before the call; while a call is running the three are untouched, so
\* the table seen through the project is never a partly filled one: it is
\* None or has all 20 operating-year rows written.
C17_FailedCallFrame ==
    [][ /\ (calls' = calls + 1 /\ raised' # "none") =>
              /\ raised' = CalculationError
              /\ last' = "calculate_cash_flow" /\ pc' = "idle"
              /\ df' = df /\ total_invest' = total_invest
              /\ const_interest' = const_interest
        /\ pc' = "loop" =>
              /\ df' = df /\ total_invest' = total_invest
              /\ const_interest' = const_interest
        /\ df' # None => \A y \in 2 .. 21 : df'[y]["OM_Cost"] # Zero ]_vars

\* C17 witness: the second calculate_cash_flow call on a project has failed
\* like the first, and the project still holds what the constructor set.
C17_Witness ==
    /\ calls = 2 /\ pc = "idle"
    /\ last = "calculate_cash_flow" /\ raised = CalculationError
    /\ df = None /\ total_invest = Zero /\ const_interest = Zero

\* C12: evaluation is deterministic and carries no state between runs.  The
\* table a calculate_cash_flow call returns is the table a second project,
\* built from the same parameters, computes on its own; a later call on the
\* same project returns a table identical to the one already stored and
\* replaces it; and every call starts its tax-credit pool from the initial
\* deductible amount.
C12_Deterministic ==
    [][ /\ calculate_cash_flow_return =>
              LET other == validate_and_init_params(p).attrs
                  RECURSIVE Run(_)
                  Run(l) == IF l.y > OPERATION_PERIOD + 1 THEN l.df
                            ELSE Run(YearBody(other, l))
              IN  /\ ret' = df'
                  /\ df' = Run(BeginLocals(p, other))
                  /\ df # None => df' = df
        /\ (calls' = calls + 1 /\ pc' = "loop") =>
              /\ loc'.current_deductible =
                     IF "deductible_tax" \in DOMAIN p THEN p["deductible_tax"]
                     ELSE RMul(RDiv(self["static_invest"], Q(113, 100)), Q(13, 100))
              /\ \A y \in 2 .. 21 : \A c \in cols : loc'.df[y][c] = Zero ]_vars

\* C12 witness: the second call on a project has returned; the pool of the
\* first call had been used up, and the stored table pays VAT from the same
\* year on as before.
C12_Witness ==
    /\ calls = 2 /\ pc = "idle"
    /\ last = "calculate_cash_flow" /\ raised = "none" /\ ret = df
    /\ df[2]["VAT_Payable"] = Zero /\ RGt(df[2]["Output_VAT"], Zero)
    /\ RGt(df[21]["VAT_Payable"], Zero)

\* C11: storage_sensitivity_analysis, for a factor present in base_params,
\* raises nothing and returns exactly `steps` rows, in increasing order of
\* variation from -variation_range to +variation_range; row i carries the
\* value base_value * (1 + variation i) and comes from a project built on a
\* copy of base_params with that value; the row of a step whose construction
\* or calculation fails is emitted with a null IRR and the later steps are
\* still evaluated; base_params is never modified.
C11_Claim ==
    [][ /\ base_params' = base_params
        /\ factor \in DOMAIN base_params => sweep_pc' # "raised"
        /\ sweep_pc' \in {"loop", "done"} => Len(results') = sweep_k' - 1
        /\ sweep_pc' = "done" =>
              /\ Len(results') = steps
              /\ \A i \in 1 .. steps :
                    LET var == IF steps = 1 THEN RNeg(variation_range)
                               ELSE RAdd(RNeg(variation_range),
                                         RMul(I(i - 1), RDiv(RMul(I(2), variation_range),
                                                             I(steps - 1))))
                        value == RMul(base_params[factor], RAdd(One, var))
                        v == validate_and_init_params(
                                 [base_params EXCEPT ![factor] = value])
                        fails == v.exc # "none" \/ v.attrs["battery_life"] = 0
                    IN  /\ results'[i].factor = factor
                        /\ results'[i].value = value
                        /\ results'[i].variation = FormatPct(var)
                        /\ i > 1 => results'[i].variation > results'[i - 1].variation
                        /\ fails => results'[i].irr = None
                        /\ ~fails => results'[i].irr = "IRR" ]_vars

=============================================================================
